---- MODULE Spec2Model ----
(***************************************************************************)
(* Model of app/main.py: the manual unsubscribe endpoint and the SES/SNS   *)
(* webhook of the unsubscribe service, with the two MongoDB collections    *)
(* they write (contacts_email_tool and sns_logs).                          *)
(*                                                                         *)
(* A handler runs to completion without yielding while it touches the      *)
(* stores (pymongo calls are blocking calls inside the async handlers), so *)
(* each request is one action. Every datetime.utcnow() of one request      *)
(* reads the same clock value; the clock may advance between requests.     *)
(* The stores are reachable (the module checks that at import, l.45-53)    *)
(* and every insert_one / update_one succeeds.                             *)
(*                                                                         *)
(* JSON values are kept by the shape the handler's Python distinguishes:   *)
(* a dict or not (x.get, x[...]), iterable or not (for ... in x), truthy   *)
(* or not (if x). Email keys are strings.                                  *)
(*                                                                         *)
(* Two specifications run the same handlers: Spec posts the traffic SNS    *)
(* sends while the clock advances; SpecAnyPayload posts every shape of     *)
(* payload, well-formed or not, at one instant.                            *)
(***************************************************************************)
EXTENDS Integers, Sequences, FiniteSets, TLC

VARIABLES
    contacts_collection,       \* db["contacts_email_tool"]
    sns_logs_collection,       \* db["sns_logs"]
    now,                       \* what datetime.utcnow() returns
    req,                       \* the last request received, in short
    resp                       \* what it was answered

vars == <<contacts_collection, sns_logs_collection, now, req, resp>>

(* ------------------------------ bounds -------------------------------- *)

\* The clock takes the values 0..MaxTime.
MaxTime == 1
\* The audit log holds at most MaxLog entries; a request that would log is
\* not taken once it is full.
MaxLog == 2
\* Longest recipient list of a notification.
MaxRecipients == 2

(* ------------------------------ values -------------------------------- *)

\* Python's None, and a key that is absent from a dict (x.get(k) is None).
None == "<None>"

Emails == {"a@x.com", "b@x.com"}

\* Variant: only None is falsy (a test "is None" in place of "not x").
Truthy_NoneOnly(x) == x # None

\* if not x: None and the empty string are falsy.
Truthy(x) == x # None /\ x # ""

(* ------------------------- the document store ------------------------- *)

\* A document is a function from the fields it has to their values; a
\* collection of contacts is a function from the emails that have a
\* document to that document.

\* Variant: fields the document already has are kept ($setOnInsert in
\* place of $set).
SetFields_KeepExisting(doc, upd) ==
    [f \in DOMAIN doc \cup DOMAIN upd |->
        IF f \in DOMAIN doc THEN doc[f] ELSE upd[f]]

\* {"$set": upd} applied to doc.
SetFields(doc, upd) ==
    [f \in DOMAIN doc \cup DOMAIN upd |->
        IF f \in DOMAIN upd THEN upd[f] ELSE doc[f]]

\* update_one({"email": email}, {"$set": upd}, upsert=True): the document
\* with that email is updated in place, or inserted with the filter's
\* email and the fields set.
update_one(coll, email, upd) ==
    [k \in DOMAIN coll \cup {email} |->
        IF k = email
        THEN SetFields(IF email \in DOMAIN coll THEN coll[email]
                       ELSE [email |-> email], upd)
        ELSE coll[k]]

\* Variants: the insert is lost; the insert is made twice.
insert_one_Lost(coll, doc) == coll

insert_one_Twice(coll, doc) == Append(Append(coll, doc), doc)

\* insert_one(doc) on an append-only collection.
insert_one(coll, doc) == Append(coll, doc)

(* ----------------------------- responses ------------------------------ *)

\* What a request answers and leaves behind: its status code, its body,
\* the last message it wrote to the logger, without its arguments (<<>>
\* when it wrote none), and the number of outbound GETs it made.
Response(status, body, logged, fetches) ==
    [status |-> status, body |-> body, logged |-> logged, fetches |-> fetches]

(* ------------------------ GET /unsubscribe ---------------------------- *)

\* Variant: a manual unsubscribe resets the flags.
UnsubscribeFields_ClearFlags(t) ==
    [unsubscribed |-> TRUE, unsubscribed_at |-> t, source |-> "manual",
     bounce |-> FALSE, complaint |-> FALSE]

UnsubscribeFields(t) ==
    [unsubscribed |-> TRUE, unsubscribed_at |-> t, source |-> "manual"]

\* RedirectResponse (307) when a redirect target is configured, else the
\* rendered template.
UnsubscribeOk(redirect_url) ==
    IF Truthy(redirect_url)
    THEN Response(307, "redirect", <<"Manual unsubscribe for">>, 0)
    ELSE Response(200, "unsubscribed.html", <<"Manual unsubscribe for">>, 0)

\* The collections outlive the process: UNSUBSCRIBE_REDIRECT_URL, read
\* from the environment when the module is loaded (l.19), is the one of
\* the process that serves the request.
unsubscribe(email, UNSUBSCRIBE_REDIRECT_URL) ==
    /\ req' = [op |-> "GET /unsubscribe", email |-> email]
    /\ IF ~Truthy(email)
       THEN /\ resp' = Response(400, "Missing email parameter", <<>>, 0)
            /\ UNCHANGED contacts_collection
       ELSE /\ contacts_collection' =
                 update_one(contacts_collection, email, UnsubscribeFields(now))
            /\ resp' = UnsubscribeOk(UNSUBSCRIBE_REDIRECT_URL)
    /\ UNCHANGED <<sns_logs_collection, now>>

(* ---------------------- POST /sns/notifications ---------------------- *)

\* The outcome of running part of a handler: the contacts collection it
\* leaves and its response.
Outcome(coll, response) == [coll |-> coll, resp |-> response]

\* An exception nobody catches ends the handler where it is raised; the
\* framework answers 500.
Uncaught(coll, logged) ==
    Outcome(coll, Response(500, "Internal Server Error", logged, 0))

Processed(coll, logged) ==
    Outcome(coll, Response(200, "SNS notification processed", logged, 0))

\* Variant: a bounce clears the complaint flag.
BounceFields_ClearsComplaint(t) ==
    [unsubscribed |-> TRUE, bounce |-> TRUE, complaint |-> FALSE,
     unsubscribed_at |-> t, source |-> "bounce"]

BounceFields(t) ==
    [unsubscribed |-> TRUE, bounce |-> TRUE, unsubscribed_at |-> t,
     source |-> "bounce"]

\* Variant: a complaint is recorded without unsubscribing.
ComplaintFields_NoUnsubscribe(t) ==
    [complaint |-> TRUE, unsubscribed_at |-> t, source |-> "complaint"]

ComplaintFields(t) ==
    [unsubscribed |-> TRUE, complaint |-> TRUE, unsubscribed_at |-> t,
     source |-> "complaint"]

\* Variant: a delivery marks the contact subscribed again.
DeliveryFields_Resubscribe(t) ==
    [last_delivered_at |-> t, source_delivery |-> "ses_delivery",
     unsubscribed |-> FALSE]

DeliveryFields(t) ==
    [last_delivered_at |-> t, source_delivery |-> "ses_delivery"]

\* for recipient in ...: email = recipient.get("emailAddress"); if email:
\* update_one(...). recipient.get raises AttributeError on an entry that is
\* not a dict, after the entries before it were written.
RECURSIVE RecipientLoop(_, _, _, _, _, _)
RecipientLoop(coll, items, i, fields, line, logged) ==
    IF i > Len(items)
    THEN Processed(coll, logged)
    ELSE IF items[i].kind # "dict"
    THEN Uncaught(coll, logged)
    ELSE LET email == items[i].emailAddress IN
         IF Truthy(email)
         THEN RecipientLoop(update_one(coll, email, fields), items, i + 1,
                            fields, line, <<line>>)
         ELSE RecipientLoop(coll, items, i + 1, fields, line, logged)

\* for email in ...: update_one(...), every entry taken as an email.
RECURSIVE DeliveryLoop(_, _, _, _)
DeliveryLoop(coll, items, i, logged) ==
    IF i > Len(items)
    THEN Processed(coll, logged)
    ELSE DeliveryLoop(update_one(coll, items[i].value, DeliveryFields(now)),
                      items, i + 1, <<"Delivery logged for">>)

\* message.get(key, {}).get(listKey, []) raises on a section that is no
\* dict (AttributeError); iterating a value that is no iterable raises
\* (TypeError).
RecipientsRaise(section) ==
    \/ section.kind = "nondict"
    \/ section.kind = "dict" /\ section.recipients.kind = "noniterable"

\* The list looped over; [] when the section or its list is absent.
RecipientsOf(section) ==
    IF section.kind = "dict" /\ section.recipients.kind = "list"
    THEN section.recipients.items
    ELSE <<>>

\* The branch of message_type == "Notification" (l.141-196).
Notification(coll, data) ==
    IF \/ data.kind # "object"
       \/ data.Message.kind # "object"
    THEN \* data["Message"], json.loads or message.get raised
         Outcome(coll, Response(400, "", <<"Failed to parse SNS Message">>, 0))
    ELSE LET message == data.Message
             notification_type == message.notificationType
         IN  IF notification_type \in {"Bounce", "Complaint", "Delivery"}
             THEN IF RecipientsRaise(message.section)
                  THEN Uncaught(coll, <<>>)
                  ELSE IF notification_type = "Bounce"
                  THEN RecipientLoop(coll, RecipientsOf(message.section), 1,
                                     BounceFields(now), "Bounce processed for",
                                     <<>>)
                  ELSE IF notification_type = "Complaint"
                  THEN RecipientLoop(coll, RecipientsOf(message.section), 1,
                                     ComplaintFields(now),
                                     "Complaint processed for", <<>>)
                  ELSE DeliveryLoop(coll, RecipientsOf(message.section), 1,
                                    <<>>)
             ELSE Processed(coll, <<"Unknown notificationType">>)

\* The branch of message_type == "SubscriptionConfirmation" (l.127-136);
\* fetch is what the outbound GET does: "ok", or "error" / "timeout" for
\* the exceptions of httpx, which the handler catches.
SubscriptionConfirmation(coll, data, fetch) ==
    IF data.kind # "object"
    THEN Uncaught(coll, <<>>)          \* data.get: AttributeError
    ELSE LET body == "Subscription confirmation processed" IN
         IF ~Truthy(data.SubscribeURL)
         THEN Outcome(coll, Response(200, body, <<>>, 0))
         ELSE IF fetch = "ok"
         THEN Outcome(coll, Response(200, body,
                  <<"Subscription confirmed via">>, 1))
         ELSE Outcome(coll, Response(200, body,
                  <<"Failed to confirm subscription">>, 1))

\* What follows the audit insert (l.124-199).
Dispatch(coll, message_type, data, fetch) ==
    IF message_type = "SubscriptionConfirmation"
    THEN SubscriptionConfirmation(coll, data, fetch)
    ELSE IF message_type = "Notification"
    THEN Notification(coll, data)
    ELSE Outcome(coll, Response(400, "", <<"Unhandled SNS message type">>, 0))

\* A request to /sns/notifications in short: its header, the shape of
\* its body, and the notificationType and the set of recipient entries of
\* the message in it, when it holds one.
Posted(body, header) ==
    LET nested == body.kind = "object" /\ body.Message.kind = "object" IN
    [op |-> "POST /sns/notifications",
     header |-> header,
     body |-> body.kind,
     message |-> IF body.kind = "object" THEN body.Message.kind ELSE "absent",
     notificationType |->
         IF nested THEN body.Message.notificationType ELSE None,
     section |->
         IF ~nested THEN "absent"
         ELSE IF body.Message.section.kind # "dict"
              THEN body.Message.section.kind
              ELSE body.Message.section.recipients.kind,
     recipients |->
         IF nested
         THEN LET items == RecipientsOf(body.Message.section)
              IN  {items[i] : i \in 1..Len(items)}
         ELSE {}]

\* The audit entry of l.118-122; the decoded body is kept by its shape.
LogEntry(message_type, data) ==
    [message_type |-> message_type, body |-> data.kind, received_at |-> now]

sns_notifications(body, header, fetch) ==
    /\ req' = Posted(body, header)
    /\ IF body.kind = "badjson"
       THEN /\ resp' = Response(400, "", <<"Failed to parse request body">>, 0)
            /\ UNCHANGED <<contacts_collection, sns_logs_collection>>
       ELSE IF ~Truthy(header)
       THEN /\ resp' = Response(400, "",
                           <<"Missing x-amz-sns-message-type header">>, 0)
            /\ UNCHANGED <<contacts_collection, sns_logs_collection>>
       ELSE /\ Len(sns_logs_collection) < MaxLog
            /\ sns_logs_collection' =
                 insert_one(sns_logs_collection, LogEntry(header, body))
            /\ \E out \in {Dispatch(contacts_collection, header, body, fetch)} :
                   /\ contacts_collection' = out.coll
                   /\ resp' = out.resp
    /\ UNCHANGED now

(* ------------------------------ requests ------------------------------ *)

SeqsUpTo(S, n) == UNION {[1..k -> S] : k \in 0..n}

Object(SubscribeURL, Message) ==
    [kind |-> "object", SubscribeURL |-> SubscribeURL, Message |-> Message]

\* Entries of bouncedRecipients / complainedRecipients as SES writes them,
\* {"emailAddress": ...}, and entries of delivery.recipients, strings.
SesRecipients == {[kind |-> "dict", emailAddress |-> e] : e \in Emails}

SesDelivered == {[kind |-> "str", value |-> e] : e \in Emails}

\* Entries of any shape: a dict with an emailAddress that is absent, empty
\* or an email, or a value that is no dict; a string, empty or an email.
RecipientEntries ==
    {[kind |-> "dict", emailAddress |-> e] : e \in {"a@x.com", None, ""}}
        \cup {[kind |-> "nondict"]}

DeliveryEntries == {[kind |-> "str", value |-> e] : e \in {"a@x.com", ""}}

List(items) == [kind |-> "dict", recipients |-> [kind |-> "list", items |-> items]]

Sections(entries) ==
    {[kind |-> "absent"], [kind |-> "nondict"],
     [kind |-> "dict", recipients |-> [kind |-> "absent"]],
     [kind |-> "dict", recipients |-> [kind |-> "noniterable"]]}
    \cup {List(s) : s \in SeqsUpTo(entries, MaxRecipients)}

\* The JSON text of data["Message"] decoded: its notificationType and the
\* section that type reads ("bounce", "complaint" or "delivery").
Message(notificationType, section) ==
    [kind |-> "object", notificationType |-> notificationType,
     section |-> section]

\* Notifications as SES publishes them.
SesMessages ==
    {Message(nt, List(s)) :
        nt \in {"Bounce", "Complaint"},
        s \in SeqsUpTo(SesRecipients, MaxRecipients) \ {<<>>}}
    \cup {Message("Delivery", List(s)) :
            s \in SeqsUpTo(SesDelivered, MaxRecipients) \ {<<>>}}

\* data["Message"] of any shape: absent (KeyError), no JSON text, JSON that
\* is no object, or an object.
Messages ==
    {[kind |-> "absent"], [kind |-> "notjson"], [kind |-> "nonobject"]}
    \cup {Message(nt, s) :
            nt \in {"Bounce", "Complaint"}, s \in Sections(RecipientEntries)}
    \cup {Message("Delivery", s) : s \in Sections(DeliveryEntries)}
    \cup {Message("Open", [kind |-> "absent"])}

ConfirmationBodies ==
    {Object(u, [kind |-> "absent"]) :
        u \in {None, "", "https://example.test/confirm"}}

\* Values of the x-amz-sns-message-type header (None: no header).
Headers ==
    {None, "", "SubscriptionConfirmation", "Notification",
     "UnsubscribeConfirmation"}

\* The requests SNS posts: the confirmation of the subscription and the
\* notifications of SES.
SnsRequests ==
    {[header |-> "SubscriptionConfirmation",
      body |-> Object("https://example.test/confirm", [kind |-> "absent"])]}
    \cup {[header |-> "Notification", body |-> Object(None, m)] :
            m \in SesMessages}

\* Requests of any shape: bytes that are no JSON, JSON that is no object,
\* confirmations and one bounce under every header, and every Message
\* under the header that reads it.
AnyRequests ==
    {[header |-> h, body |-> b] :
        h \in Headers,
        b \in {[kind |-> "badjson"], [kind |-> "nonobject"],
               Object(None, Message("Bounce", List(
                   <<[kind |-> "dict", emailAddress |-> "a@x.com"]>>)))}
                \cup ConfirmationBodies}
    \cup {[header |-> "Notification", body |-> Object(None, m)] :
            m \in Messages}

\* What the outbound GET can do, for a request that makes one.
Fetches(body, header) ==
    IF /\ header = "SubscriptionConfirmation"
       /\ body.kind = "object"
       /\ Truthy(body.SubscribeURL)
    THEN {"ok", "error", "timeout"}
    ELSE {"none"}

(* ------------------------------ clock --------------------------------- *)

Tick ==
    /\ now < MaxTime
    /\ now' = now + 1
    /\ UNCHANGED <<contacts_collection, sns_logs_collection, req, resp>>

(* --------------------------- specification ---------------------------- *)

Init ==
    /\ contacts_collection = <<>>
    /\ sns_logs_collection = <<>>
    /\ now = 0
    /\ req = [op |-> "none"]
    /\ resp = Response(0, "", <<>>, 0)

Post(requests) ==
    \E r \in requests :
       \E fetch \in Fetches(r.body, r.header) :
          sns_notifications(r.body, r.header, fetch)

Get ==
    \E email \in Emails \cup {None, ""},
       redirect_url \in {None, "https://example.test/bye"} :
          unsubscribe(email, redirect_url)

Next ==
    \/ Get
    \/ Post(SnsRequests)
    \/ Tick

Spec == Init /\ [][Next]_vars

NextAnyPayload ==
    \/ Get
    \/ Post(AnyRequests)

SpecAnyPayload == Init /\ [][NextAnyPayload]_vars

(* ------------------------------ claims -------------------------------- *)

\* The emails a contact can be stored under (a delivery receipt is stored
\* under whatever string it lists, the empty one included).
Keys == Emails \cup {""}

ContactFields ==
    {"email", "unsubscribed", "unsubscribed_at", "source", "bounce",
     "complaint", "last_delivered_at", "source_delivery"}

\* Field f of the contact of email e in coll: <<value>>, or <<>> when the
\* contact or the field is absent.
Field(coll, e, f) ==
    IF e \in DOMAIN coll /\ f \in DOMAIN coll[e] THEN <<coll[e][f]>> ELSE <<>>

\* The contact of email e is the same in both collections, but for the
\* fields in except.
SameContact(before, after, e, except) ==
    /\ e \in DOMAIN before => e \in DOMAIN after
    /\ \A f \in ContactFields \ except : Field(after, e, f) = Field(before, e, f)

\* This step is a request being handled (the clock stands still).
RequestStep == now' = now

IsPost(r) == r.op = "POST /sns/notifications"

IsGet(r) == r.op = "GET /unsubscribe"

\* The request passed the parse of its body and the header check.
Validated(r) == IsPost(r) /\ r.body # "badjson" /\ r.header \notin {None, ""}

\* The emails of the recipient entries that carry one.
Named(r) ==
    {x.emailAddress : x \in {y \in r.recipients :
        "emailAddress" \in DOMAIN y /\ y.emailAddress \notin {None, ""}}}

\* The strings a delivery receipt lists.
Delivered(r) == {x.value : x \in {y \in r.recipients : "value" \in DOMAIN y}}

IsNotification(r, types) ==
    /\ Validated(r)
    /\ r.header = "Notification"
    /\ r.notificationType \in types

\* C1 as stated: every POST to /sns/notifications, whatever its body, header
\* and outcome, makes the event log grow by exactly one entry.
C1_EveryPostLogged ==
    [][IsPost(req') =>
        Len(sns_logs_collection') = Len(sns_logs_collection) + 1]_vars

\* C1 as amended: a POST whose body parses and whose message-type header is
\* present appends exactly one entry, its own, to the event log whatever
\* happens to it afterwards (success, client error or exception); a POST
\* rejected for its body or its missing header appends none.
C1_ValidatedPostLogged ==
    [][IsPost(req') =>
        IF Validated(req')
        THEN sns_logs_collection' =
               Append(sns_logs_collection,
                      [message_type |-> req'.header, body |-> req'.body,
                       received_at |-> now])
        ELSE sns_logs_collection' = sns_logs_collection]_vars

C1_Witness ==
    /\ Validated(req)
    /\ resp.status \in {400, 500}
    /\ Len(sns_logs_collection) = MaxLog

\* C2: a POST without (or with an empty) x-amz-sns-message-type header is
\* answered 400, appends no audit entry and changes no contact.
C2_MissingHeader ==
    [][(IsPost(req') /\ req'.header \in {None, ""}) =>
        /\ resp'.status = 400
        /\ sns_logs_collection' = sns_logs_collection
        /\ contacts_collection' = contacts_collection]_vars

C2_Witness ==
    /\ IsPost(req)
    /\ req.header \in {None, ""}
    /\ req.notificationType = "Bounce"
    /\ Named(req) # {}
    /\ Named(req) \cap DOMAIN contacts_collection = {}
    /\ resp.status = 400

\* C3 as stated: after a Bounce (Complaint) notification every recipient of
\* its list with a non-empty emailAddress has a contact with unsubscribed,
\* source "bounce" ("complaint") and bounce (complaint) set; entries without
\* an emailAddress are skipped: they write no contact and the response is no
\* error.
C3_RecipientsUnsubscribed ==
    [][(/\ IsNotification(req', {"Bounce", "Complaint"})
        /\ req'.section \in {"absent", "list"}) =>
        LET flag == IF req'.notificationType = "Bounce"
                    THEN "bounce" ELSE "complaint"
        IN  /\ resp'.status = 200
            /\ \A e \in Named(req') :
                 /\ Field(contacts_collection', e, "unsubscribed") = <<TRUE>>
                 /\ Field(contacts_collection', e, "source") = <<flag>>
                 /\ Field(contacts_collection', e, flag) = <<TRUE>>
            /\ \A e \in Keys \ Named(req') :
                 /\ e \in DOMAIN contacts_collection' =>
                        e \in DOMAIN contacts_collection
                 /\ SameContact(contacts_collection, contacts_collection',
                                e, {})]_vars

\* C4: a Delivery notification sets last_delivered_at and source_delivery of
\* each listed recipient, creating the contact if absent, and nothing else:
\* every other field of those contacts, and every other contact, is as
\* before.
C4_DeliveryFrame ==
    [][(RequestStep /\ IsNotification(req', {"Delivery"})) =>
        /\ \A e \in Delivered(req') :
             /\ Field(contacts_collection', e, "last_delivered_at") = <<now>>
             /\ Field(contacts_collection', e, "source_delivery")
                  = <<"ses_delivery">>
             /\ SameContact(contacts_collection, contacts_collection', e,
                            {"email", "last_delivered_at", "source_delivery"})
        /\ \A e \in Keys \ Delivered(req') :
             /\ e \in DOMAIN contacts_collection' =>
                    e \in DOMAIN contacts_collection
             /\ SameContact(contacts_collection, contacts_collection',
                            e, {})]_vars

C4_Witness ==
    /\ IsNotification(req, {"Delivery"})
    /\ Delivered(req) = {"a@x.com"}
    /\ Field(contacts_collection, "a@x.com", "last_delivered_at") = <<now>>
    /\ Field(contacts_collection, "a@x.com", "source") = <<"bounce">>
    /\ Field(contacts_collection, "b@x.com", "unsubscribed") = <<TRUE>>
    /\ Field(contacts_collection, "b@x.com", "last_delivered_at") = <<>>

\* C5 as stated: a second unsubscribe of the same email leaves the contacts
\* as the first one left them.
C5_SecondCallChangesNothing ==
    [][(/\ RequestStep
        /\ IsGet(req) /\ req.email \notin {None, ""}
        /\ req' = req) =>
        contacts_collection' = contacts_collection]_vars

\* C5 as amended: an unsubscribe of a non-empty email reports success and
\* leaves its contact with unsubscribed, source "manual" and unsubscribed_at
\* the time of the call, every other field and every other contact as
\* before; a second call in a row changes nothing but unsubscribed_at.
C5_IdempotentButForTime ==
    [][(RequestStep /\ IsGet(req') /\ req'.email \notin {None, ""}) =>
        LET e == req'.email IN
        /\ resp'.status \in {200, 307}
        /\ Field(contacts_collection', e, "unsubscribed") = <<TRUE>>
        /\ Field(contacts_collection', e, "source") = <<"manual">>
        /\ Field(contacts_collection', e, "unsubscribed_at") = <<now>>
        /\ SameContact(contacts_collection, contacts_collection', e,
                       {"email", "unsubscribed", "source", "unsubscribed_at"})
        /\ \A k \in Keys \ {e} :
             /\ k \in DOMAIN contacts_collection' =>
                    k \in DOMAIN contacts_collection
             /\ SameContact(contacts_collection, contacts_collection', k, {})
        /\ req = req' =>
             SameContact(contacts_collection, contacts_collection', e,
                         {"unsubscribed_at"})]_vars

C5_Witness ==
    /\ IsGet(req)
    /\ req.email = "a@x.com"
    /\ resp.status = 307
    /\ now = MaxTime
    /\ Field(contacts_collection, "a@x.com", "unsubscribed_at") = <<now>>
    /\ Field(contacts_collection, "a@x.com", "source") = <<"manual">>
    /\ Field(contacts_collection, "a@x.com", "complaint") = <<TRUE>>

\* C6: once a contact has bounce (complaint) set, it has it in every later
\* state, whatever request comes next.
C6_StickyFlags ==
    [][\A e \in Keys : \A flag \in {"bounce", "complaint"} :
          Field(contacts_collection, e, flag) = <<TRUE>> =>
              Field(contacts_collection', e, flag) = <<TRUE>>]_vars

C6_Witness ==
    /\ Field(contacts_collection, "a@x.com", "bounce") = <<TRUE>>
    /\ Field(contacts_collection, "a@x.com", "source") = <<"manual">>
    /\ resp.status = 500

\* C7: a request answered 400 changes and creates no contact; it appends
\* nothing to the event log unless it passed the parse of its body and the
\* header check, and then its one audit entry.
C7_RejectedWritesNothing ==
    [][resp'.status = 400 =>
        /\ contacts_collection' = contacts_collection
        /\ IF Validated(req')
           THEN Len(sns_logs_collection') = Len(sns_logs_collection) + 1
           ELSE sns_logs_collection' = sns_logs_collection]_vars

C7_Witness ==
    /\ resp.status = 400
    /\ resp.logged = <<"Failed to parse SNS Message">>
    /\ Len(sns_logs_collection) = MaxLog
    /\ DOMAIN contacts_collection # {}

\* C8 as stated: a SubscriptionConfirmation whose body parses is answered
\* 200 whatever the outbound GET does, makes at most one GET and changes no
\* contact.
C8_ConfirmationAlwaysOk ==
    [][(IsPost(req') /\ req'.header = "SubscriptionConfirmation"
                     /\ req'.body # "badjson") =>
        /\ resp'.status = 200
        /\ resp'.fetches <= 1
        /\ contacts_collection' = contacts_collection]_vars

\* Whether request r is an unsubscribing event for email e, and of what
\* kind.
Unsubscribes(r, e) ==
    \/ IsGet(r) /\ r.email = e /\ e # ""
    \/ IsNotification(r, {"Bounce", "Complaint"}) /\ e \in Named(r)

KindOf(r) ==
    IF IsGet(r) THEN "manual"
    ELSE IF r.notificationType = "Bounce" THEN "bounce" ELSE "complaint"

\* C9: each unsubscribing event (manual unsubscribe, Bounce, Complaint)
\* leaves the contacts it names with its own kind as source and its own
\* time as unsubscribed_at; every other request, a Delivery included,
\* leaves source and unsubscribed_at as they are. So both are those of the
\* most recent unsubscribing event of the email.
C9_LastWriteWins ==
    [][RequestStep =>
        \A e \in Keys :
           IF Unsubscribes(req', e)
           THEN /\ Field(contacts_collection', e, "source") = <<KindOf(req')>>
                /\ Field(contacts_collection', e, "unsubscribed_at") = <<now>>
           ELSE /\ Field(contacts_collection', e, "source")
                     = Field(contacts_collection, e, "source")
                /\ Field(contacts_collection', e, "unsubscribed_at")
                     = Field(contacts_collection, e, "unsubscribed_at")]_vars

C9_Witness ==
    /\ now = MaxTime
    /\ Field(contacts_collection, "a@x.com", "bounce") = <<TRUE>>
    /\ Field(contacts_collection, "a@x.com", "source") = <<"complaint">>
    /\ Field(contacts_collection, "a@x.com", "unsubscribed_at") = <<now>>
    /\ Field(contacts_collection, "a@x.com", "last_delivered_at") = <<>>
    /\ Field(contacts_collection, "b@x.com", "source") = <<"bounce">>
    /\ Field(contacts_collection, "b@x.com", "unsubscribed_at") = <<0>>

\* C10: a contact with bounce, complaint or a source has unsubscribed set,
\* and a contact that has unsubscribed set keeps it: no request clears or
\* removes it.
C10_UnsubscribedStays ==
    /\ [](\A e \in DOMAIN contacts_collection :
            (\/ Field(contacts_collection, e, "bounce") = <<TRUE>>
             \/ Field(contacts_collection, e, "complaint") = <<TRUE>>
             \/ Field(contacts_collection, e, "source") # <<>>)
            => Field(contacts_collection, e, "unsubscribed") = <<TRUE>>)
    /\ [][\A e \in Keys :
            Field(contacts_collection, e, "unsubscribed") = <<TRUE>> =>
                Field(contacts_collection', e, "unsubscribed") = <<TRUE>>]_vars

C10_Witness ==
    /\ Field(contacts_collection, "a@x.com", "complaint") = <<TRUE>>
    /\ Field(contacts_collection, "a@x.com", "unsubscribed") = <<TRUE>>
    /\ Field(contacts_collection, "a@x.com", "last_delivered_at") # <<>>
    /\ "b@x.com" \in DOMAIN contacts_collection
    /\ Field(contacts_collection, "b@x.com", "unsubscribed") = <<>>

====
